---- MODULE Spec2Model ----
(***************************************************************************)
(* Classroom Reflection (src/app.py): the CEI score of one class session,  *)
(* the interpretation of a series of scores, and the Streamlit pages that  *)
(* store reflections in SQLite and show the dashboard.                     *)
(*                                                                         *)
(* Numbers.  A score is kept as an integer number of hundredths (28.0 is   *)
(* 2800), and a mean as the exact fraction sum/count.  round(x, 2) is      *)
(* modelled as rounding the exact fraction to the nearest hundredth, ties  *)
(* to even, which is what Python's round gives on the values reached here  *)
(* (the weighted sum of src/app.py:138-143 differs from a tie by far more  *)
(* than a float's error unless it is one, and the ties are exact floats).  *)
(***************************************************************************)
EXTENDS Integers, Sequences, FiniteSets, TLC

VARIABLES
    args,               \* the arguments of one call of compute_cei
    ret,                \* what that call returned (or that it raised)
    series,             \* the score series handed to interpret_engagement
    origin,             \* where the series' scores come from
    verdict,            \* what interpret_engagement returned for the series
    session_state,      \* st.session_state: school_id, teacher_id
    teachers,           \* table teachers
    classes,            \* table classes, in rowid order
    daily_columns,      \* the columns table daily_reflections has
    daily_reflections,  \* table daily_reflections, in id order
    out                 \* what the last script run put on the page

vars == <<args, ret, series, origin, verdict, session_state, teachers,
          classes, daily_columns, daily_reflections, out>>

cei_vars == <<args, ret>>
trend_vars == <<series, origin, verdict>>
app_vars == <<session_state, teachers, classes, daily_columns,
              daily_reflections, out>>

-----------------------------------------------------------------------------
(* Bounds of the model. *)

\* compute_cei is called with present in -1..MaxPresent
MaxPresent == 9
\* ... and class_size in -1..MaxClassSizeArg
MaxClassSizeArg == 2
\* a series handed to interpret_engagement has at most this many scores
MaxSeriesLen == 2
\* table classes holds at most this many rows
MaxClasses == 2
\* table daily_reflections holds at most this many rows
MaxReflections == 2

\* one hundredth is the unit of a score: 100 units are one point
Scale == 100

None == "None"

-----------------------------------------------------------------------------
(* CORE LOGIC, src/app.py:115-164 *)

\* the weights, in hundredths
CEI_WEIGHTS == [participation |-> 40, attentiveness |-> 40, presence |-> 20]

CEI_LEVEL_SCORES == [low |-> 10, medium |-> 25, high |-> 40]

\* a faulty variant of LevelScore: the levels scored as percentages
LevelScore_percent(level) ==
    IF level = "low" THEN 25
    ELSE IF level = "medium" THEN 60
    ELSE IF level = "high" THEN 100
    ELSE 0

\* CEI_LEVEL_SCORES.get(level, 0)
LevelScore(level) ==
    IF level \in DOMAIN CEI_LEVEL_SCORES THEN CEI_LEVEL_SCORES[level] ELSE 0

\* the fraction num/den (den > 0) rounded to the nearest integer, ties to even
RoundHalfEven(num, den) ==
    LET q == num \div den
        r == num % den
    IN  IF 2 * r < den THEN q
        ELSE IF 2 * r > den THEN q + 1
        ELSE IF q % 2 = 0 THEN q ELSE q + 1

Returned(v) == [raised |-> FALSE, value |-> v]
Raised == [raised |-> TRUE, value |-> 0]

\* present / class_size raises ZeroDivisionError when class_size is 0
ZeroDivision(class_size) == class_size = 0

\* a faulty variant of presence_score: no min
presence_score_unclamped(present, class_size) ==
    present * CEI_LEVEL_SCORES["high"]

\* min((present / class_size) * 40, 40), as a numerator over class_size
\* (class_size > 0)
presence_score(present, class_size) ==
    IF present * CEI_LEVEL_SCORES["high"] <= CEI_LEVEL_SCORES["high"] * class_size
    THEN present * CEI_LEVEL_SCORES["high"]
    ELSE CEI_LEVEL_SCORES["high"] * class_size

\* the weighted sum and round(.., 2): the score in hundredths
weighted_round(part_score, att_score, presence_num, class_size) ==
    RoundHalfEven(CEI_WEIGHTS["participation"] * part_score * class_size
                  + CEI_WEIGHTS["attentiveness"] * att_score * class_size
                  + CEI_WEIGHTS["presence"] * presence_num,
                  class_size)

\* faulty variants of compute_cei: the presence component is not clamped
compute_cei_unclamped(participation, attentiveness, present, class_size) ==
    IF class_size <= 0 THEN Returned(0)
    ELSE Returned(weighted_round(LevelScore(participation),
                                 LevelScore(attentiveness),
                                 present * CEI_LEVEL_SCORES["high"],
                                 class_size))

\* ... the guard lets class_size = 0 through
compute_cei_negative_guard(participation, attentiveness, present, class_size) ==
    IF class_size < 0 THEN Returned(0)
    ELSE IF ZeroDivision(class_size) THEN Raised
    ELSE Returned(weighted_round(LevelScore(participation),
                                 LevelScore(attentiveness),
                                 presence_score(present, class_size),
                                 class_size))

compute_cei(participation, attentiveness, present, class_size) ==
    IF class_size <= 0 THEN Returned(0)
    ELSE IF ZeroDivision(class_size) THEN Raised
    ELSE Returned(weighted_round(LevelScore(participation),
                                 LevelScore(attentiveness),
                                 presence_score(present, class_size),
                                 class_size))

ENGAGEMENT_RULES == <<
    [min |-> 75, max |-> 100, status |-> "green",
     message |-> "Class is responding well. Keep your current approach."],
    [min |-> 60, max |-> 75, status |-> "yellow",
     message |-> "Engagement is fair. Small adjustments may help."],
    [min |-> 0, max |-> 60, status |-> "red",
     message |-> "Engagement is low. Consider changing pace or method."] >>

RECURSIVE SeqSum(_)
SeqSum(s) == IF s = <<>> THEN 0 ELSE Head(s) + SeqSum(Tail(s))

\* a faulty variant of series_avg: the empty series is not guarded, and the mean
\* of an empty pandas Series is NaN
series_avg_unguarded(s) ==
    IF s # <<>> THEN [nan |-> FALSE, num |-> SeqSum(s), den |-> Len(s)]
    ELSE [nan |-> TRUE, num |-> 0, den |-> 1]

\* avg = series.mean() if not series.empty else 0, as the fraction num/den
\* of hundredths
series_avg(s) ==
    IF s # <<>> THEN [nan |-> FALSE, num |-> SeqSum(s), den |-> Len(s)]
    ELSE [nan |-> FALSE, num |-> 0, den |-> 1]

\* faulty variants of rule_matches: rule["min"] < avg <= rule["max"]
rule_matches_open_min(rule, avg) ==
    /\ ~avg.nan
    /\ rule.min * Scale * avg.den < avg.num
    /\ avg.num <= rule.max * Scale * avg.den

\* ... rule["min"] <= avg <= rule["max"]
rule_matches_closed_max(rule, avg) ==
    /\ ~avg.nan
    /\ rule.min * Scale * avg.den <= avg.num
    /\ avg.num <= rule.max * Scale * avg.den

\* rule["min"] <= avg < rule["max"]; every comparison with NaN is false
rule_matches(rule, avg) ==
    /\ ~avg.nan
    /\ rule.min * Scale * avg.den <= avg.num
    /\ avg.num < rule.max * Scale * avg.den

FALLBACK_MESSAGE == "Engagement data unclear. Please reflect more consistently."

\* the first rule of ENGAGEMENT_RULES that matches, or the fallback
interpret_engagement(s) ==
    LET avg == series_avg(s)
        matching == {i \in DOMAIN ENGAGEMENT_RULES :
                        rule_matches(ENGAGEMENT_RULES[i], avg)}
    IN  IF matching # {}
        THEN LET first == CHOOSE i \in matching : \A j \in matching : i <= j
             IN  [status |-> ENGAGEMENT_RULES[first].status,
                  message |-> ENGAGEMENT_RULES[first].message]
        ELSE [status |-> "red", message |-> FALLBACK_MESSAGE]

-----------------------------------------------------------------------------
(* Calls of compute_cei on arguments drawn from bounded sets. *)

LevelArgs == {"low", "medium", "high", "other"}
PresentArgs == -1 .. MaxPresent
ClassSizeArgs == -1 .. MaxClassSizeArg

NoArgs == [participation |-> None, attentiveness |-> None,
           present |-> 0, class_size |-> 0]
NoReturn == [called |-> FALSE, raised |-> FALSE, value |-> 0]

CeiIdle == args = NoArgs /\ ret = NoReturn
NoVerdict == [status |-> None, message |-> None]
NoSession == [school_id |-> None, teacher_id |-> None]
NoOutput == [page |-> None, kind |-> None, message |-> None, cei |-> 0,
             class_filter |-> None, subject_filter |-> None, chart |-> <<>>,
             interpreted |-> FALSE, status |-> None]

TrendIdle == series = <<>> /\ origin = None /\ verdict = NoVerdict
AppIdle ==
    /\ session_state = NoSession
    /\ teachers = {}
    /\ classes = <<>>
    /\ daily_columns = {}
    /\ daily_reflections = <<>>
    /\ out = NoOutput

InitCei ==
    /\ args \in [participation : LevelArgs, attentiveness : LevelArgs,
                 present : PresentArgs, class_size : ClassSizeArgs]
    /\ ret = NoReturn
    /\ TrendIdle
    /\ AppIdle

CallComputeCei ==
    /\ ~ret.called
    /\ LET r == compute_cei(args.participation, args.attentiveness,
                            args.present, args.class_size)
       IN  ret' = [called |-> TRUE, raised |-> r.raised, value |-> r.value]
    /\ UNCHANGED <<args, trend_vars, app_vars>>

NextCei == CallComputeCei

SpecCei == InitCei /\ [][NextCei]_vars

-----------------------------------------------------------------------------
(* Calls of interpret_engagement on series drawn from bounded sets: a series *)
(* of scores compute_cei returned for present >= 0, or a series of sample    *)
(* scores (in hundredths), which need not be scores compute_cei can return.  *)
(* The sample scores are multiples of 0.25, so their float sums and means    *)
(* are exact and the comparisons of src/app.py:161 are those of the          *)
(* fractions.                                                                *)

SampleScores == {-1000, 0, 3000, 4000, 5975, 6000, 6500, 7000, 7475, 7500,
                 8000, 9000, 10000, 11000}

InitTrend ==
    /\ TrendIdle
    /\ CeiIdle
    /\ AppIdle

AppendComputed ==
    /\ Len(series) < MaxSeriesLen
    /\ origin \in {None, "compute_cei"}
    /\ \E participation \in LevelArgs, attentiveness \in LevelArgs,
          present \in PresentArgs, class_size \in ClassSizeArgs :
          LET r == compute_cei(participation, attentiveness, present, class_size)
          IN  /\ present >= 0
              /\ ~r.raised
              /\ series' = Append(series, r.value)
    /\ origin' = "compute_cei"
    /\ verdict' = NoVerdict
    /\ UNCHANGED <<cei_vars, app_vars>>

AppendSample ==
    /\ Len(series) < MaxSeriesLen
    /\ origin \in {None, "sample"}
    /\ \E score \in SampleScores : series' = Append(series, score)
    /\ origin' = "sample"
    /\ verdict' = NoVerdict
    /\ UNCHANGED <<cei_vars, app_vars>>

CallInterpretEngagement ==
    /\ verdict = NoVerdict
    /\ verdict' = interpret_engagement(series)
    /\ UNCHANGED <<series, origin, cei_vars, app_vars>>

NextTrend == AppendComputed \/ AppendSample \/ CallInterpretEngagement

SpecTrend == InitTrend /\ [][NextTrend]_vars

-----------------------------------------------------------------------------
(* DATABASE, src/app.py:15-70.  The database file outlives the process and *)
(* init_db creates a table only if the file does not have it yet: table    *)
(* daily_reflections has the columns of init_db's CREATE TABLE when init_db *)
(* created it, and the columns it already had when the file came with the  *)
(* table (here: one that also has the column topic).                       *)

InitDbColumns ==
    {"id", "school_id", "teacher_id", "class_id", "subject_id", "session_date",
     "number_present", "participation_level", "attentiveness_level",
     "task_given", "note", "cei_score"}

\* the columns the INSERT of daily_reflection names, src/app.py:254-258
InsertColumns ==
    {"school_id", "teacher_id", "class_id", "subject_id", "session_date",
     "number_present", "participation_level", "attentiveness_level",
     "task_given", "note", "topic", "cei_score"}

ExistingColumns == {InitDbColumns, InitDbColumns \cup {"topic"}}

-----------------------------------------------------------------------------
(* The inputs a teacher enters, drawn from small sets; "" is a text field   *)
(* left blank.                                                             *)

SchoolInputs == {"", "s1"}
TeacherInputs == {"", "t1", "t2"}
NameInputs == {"", "Ada"}
ClassInputs == {"JSS2"}
SubjectInputs == {"Maths", "English"}
DateInputs == {1}
\* the pairs chosen in the selectboxes of src/app.py:220-231
LevelInputs == {<<"low", "medium">>}
\* "Total students": st.number_input(min_value=1)
ClassSizeInputs == {2}
\* "Number present": st.number_input(min_value=0, max_value=class_size)
PresentInputs == {0, 1, 2}
TaskInputs == {"classwork"}
TopicInputs == {"fractions"}
NoteInputs == {""}

Page(page, kind, message) ==
    [NoOutput EXCEPT !.page = page, !.kind = kind, !.message = message]

LoggedIn == session_state.teacher_id # None

-----------------------------------------------------------------------------
(* SESSION STATE and LOGIN, src/app.py:75-109 *)

\* a browser session starts: nobody is logged in and the login page shows
NewSession ==
    /\ session_state' = NoSession
    /\ out' = Page("Login", "form", None)
    /\ UNCHANGED <<teachers, classes, daily_columns, daily_reflections,
                   cei_vars, trend_vars>>

\* INSERT OR IGNORE INTO teachers: the primary key is (teacher_id, school_id)
InsertOrIgnoreTeacher(table, row) ==
    IF \E t \in table : t.teacher_id = row.teacher_id /\ t.school_id = row.school_id
    THEN table
    ELSE table \cup {row}

\* "Continue" pressed on the login page
login(school_id, teacher_id, teacher_name) ==
    /\ ~LoggedIn
    /\ IF school_id # "" /\ teacher_id # "" /\ teacher_name # ""
       THEN /\ teachers' = InsertOrIgnoreTeacher(teachers,
                    [teacher_id |-> teacher_id, school_id |-> school_id,
                     teacher_name |-> teacher_name])
            /\ session_state' = [school_id |-> school_id, teacher_id |-> teacher_id]
            \* st.rerun(): the script runs again and shows the first page
            /\ out' = Page("Class Setup", "form", None)
       ELSE /\ out' = Page("Login", "error", "All fields are required")
            /\ UNCHANGED <<teachers, session_state>>
    /\ UNCHANGED <<classes, daily_columns, daily_reflections, cei_vars, trend_vars>>

-----------------------------------------------------------------------------
(* CLASS SETUP, src/app.py:169-187 *)

\* "Add Class" pressed
class_setup(class_id, subject_id, class_size) ==
    /\ LoggedIn
    /\ Len(classes) < MaxClasses
    /\ classes' = Append(classes,
            [class_id |-> class_id, subject_id |-> subject_id,
             school_id |-> session_state.school_id, class_size |-> class_size])
    /\ out' = Page("Class Setup", "success", "Class added successfully")
    /\ UNCHANGED <<session_state, teachers, daily_columns, daily_reflections,
                   cei_vars, trend_vars>>

-----------------------------------------------------------------------------
(* DAILY REFLECTION, src/app.py:192-277 *)

\* SELECT * FROM classes WHERE school_id=?
ClassesOfSchool(school_id) ==
    SelectSeq(classes, LAMBDA c : c.school_id = school_id)

\* class_id + " - " + subject_id; the sample names hold no " - ", so the
\* pair stands for the label
Label(c) == <<c.class_id, c.subject_id>>

\* classes[classes["label"] == selection].iloc[0]
FirstWithLabel(rows, selection) ==
    LET i == CHOOSE i \in 1..Len(rows) :
                /\ Label(rows[i]) = selection
                /\ \A j \in 1..(i - 1) : Label(rows[j]) # selection
    IN  rows[i]

\* the page when the school has no class yet
daily_reflection_no_classes ==
    /\ LoggedIn
    /\ ClassesOfSchool(session_state.school_id) = <<>>
    /\ out' = Page("Daily Reflection", "info", "Please add your classes first.")
    /\ UNCHANGED <<session_state, teachers, classes, daily_columns,
                   daily_reflections, cei_vars, trend_vars>>

\* the row the INSERT of src/app.py:253-273 writes: the values are bound in
\* the order of the tuple, so column note gets topic and column topic gets note
InsertedRow(id, row, session_date, present, participation, attentiveness, task, topic, note, cei) ==
    [id |-> id,
     school_id |-> session_state.school_id,
     teacher_id |-> session_state.teacher_id,
     class_id |-> row.class_id,
     subject_id |-> row.subject_id,
     session_date |-> session_date,
     number_present |-> present,
     participation_level |-> participation,
     attentiveness_level |-> attentiveness,
     task_given |-> task,
     note |-> topic,
     topic |-> note,
     cei_score |-> cei]

\* a faulty variant of InsertReflection: the row replaces the stored row of the
\* same teacher, class, subject and date (an upsert)
InsertReflection_upsert(table, new) ==
    LET same(d) == /\ d.school_id = new.school_id
                   /\ d.teacher_id = new.teacher_id
                   /\ d.class_id = new.class_id
                   /\ d.subject_id = new.subject_id
                   /\ d.session_date = new.session_date
    IN  IF \E i \in 1..Len(table) : same(table[i])
        THEN [i \in 1..Len(table) |->
                 IF same(table[i]) THEN [new EXCEPT !.id = table[i].id]
                 ELSE table[i]]
        ELSE Append(table, new)

\* INSERT INTO daily_reflections: a new row, the stored rows are left alone
InsertReflection(table, new) == Append(table, new)

\* "Save Reflection" pressed
daily_reflection(selection, session_date, present, participation, attentiveness, task, topic, note) ==
    /\ LoggedIn
    /\ LET rows == ClassesOfSchool(session_state.school_id)
       IN  /\ rows # <<>>
           /\ selection \in {Label(rows[i]) : i \in 1..Len(rows)}
           /\ LET row == FirstWithLabel(rows, selection)
                  r == compute_cei(participation, attentiveness, present,
                                   row.class_size)
              IN  /\ present \in 0..row.class_size
                  /\ IF r.raised
                     THEN /\ out' = Page("Daily Reflection", "exception",
                                         "ZeroDivisionError")
                          /\ UNCHANGED daily_reflections
                     ELSE IF InsertColumns \subseteq daily_columns
                     THEN /\ Len(daily_reflections) < MaxReflections
                          /\ daily_reflections' = InsertReflection(
                                daily_reflections,
                                InsertedRow(Len(daily_reflections) + 1, row,
                                            session_date, present, participation,
                                            attentiveness, task, topic, note,
                                            r.value))
                          /\ out' = [Page("Daily Reflection", "success",
                                          "Reflection saved. Engagement score")
                                     EXCEPT !.cei = r.value]
                     ELSE \* sqlite3.OperationalError: no column named topic
                          /\ out' = Page("Daily Reflection", "exception",
                                         "OperationalError")
                          /\ UNCHANGED daily_reflections
    /\ UNCHANGED <<session_state, teachers, classes, daily_columns,
                   cei_vars, trend_vars>>

-----------------------------------------------------------------------------
(* DASHBOARD, src/app.py:282-331 *)

\* SELECT * FROM daily_reflections WHERE school_id=? AND teacher_id=?
ReflectionsOf(school_id, teacher_id) ==
    SelectSeq(daily_reflections,
              LAMBDA d : d.school_id = school_id /\ d.teacher_id = teacher_id)

\* rows sorted by session_date, rows of one date in their order in rows
RECURSIVE InsertByDate(_, _)
InsertByDate(sorted, d) ==
    IF sorted = <<>> THEN <<d>>
    ELSE IF sorted[Len(sorted)].session_date <= d.session_date
    THEN Append(sorted, d)
    ELSE Append(InsertByDate(SubSeq(sorted, 1, Len(sorted) - 1), d),
                sorted[Len(sorted)])

RECURSIVE SortByDate(_)
SortByDate(rows) ==
    IF rows = <<>> THEN <<>>
    ELSE InsertByDate(SortByDate(SubSeq(rows, 1, Len(rows) - 1)), rows[Len(rows)])

\* df[(class_id == class_filter) & (subject_id == subject_filter)]
\*   .sort_values("session_date")
PlotRows(df, class_filter, subject_filter) ==
    SortByDate(SelectSeq(df, LAMBDA d : /\ d.class_id = class_filter
                                        /\ d.subject_id = subject_filter))

CeiScores(rows) == [i \in 1..Len(rows) |-> rows[i].cei_score]

\* a faulty variant of TooFewEntries: one entry is enough
TooFewEntries_one_is_enough(plot_df) == plot_df = <<>> \/ Len(plot_df) < 1

\* plot_df.empty or len(plot_df) < 2
TooFewEntries(plot_df) == plot_df = <<>> \/ Len(plot_df) < 2

\* st.success / st.warning / st.error by status
StatusKind(status) ==
    IF status = "green" THEN "success"
    ELSE IF status = "yellow" THEN "warning"
    ELSE "error"

\* the page when the teacher has no reflection yet
teacher_dashboard_empty ==
    /\ LoggedIn
    /\ ReflectionsOf(session_state.school_id, session_state.teacher_id) = <<>>
    /\ out' = Page("Dashboard", "info", "No reflections yet.")
    /\ UNCHANGED <<session_state, teachers, classes, daily_columns,
                   daily_reflections, cei_vars, trend_vars>>

\* the page with a class and a subject chosen
teacher_dashboard(class_filter, subject_filter) ==
    /\ LoggedIn
    /\ LET df == ReflectionsOf(session_state.school_id, session_state.teacher_id)
           plot_df == PlotRows(df, class_filter, subject_filter)
           shown == [Page("Dashboard", "info", None)
                     EXCEPT !.class_filter = class_filter,
                            !.subject_filter = subject_filter,
                            !.chart = CeiScores(plot_df)]
       IN  /\ df # <<>>
           /\ \E i \in 1..Len(df) : /\ df[i].class_id = class_filter
                                    /\ df[i].subject_id = subject_filter
           /\ IF TooFewEntries(plot_df)
              THEN out' = [shown EXCEPT !.message =
                      "Not enough entries yet to show a clear pattern. Keep reflecting over the next few days."]
              ELSE LET result == interpret_engagement(CeiScores(plot_df))
                   IN  out' = [shown EXCEPT !.kind = StatusKind(result.status),
                                            !.interpreted = TRUE,
                                            !.status = result.status,
                                            !.message = result.message]
    /\ UNCHANGED <<session_state, teachers, classes, daily_columns,
                   daily_reflections, cei_vars, trend_vars>>

-----------------------------------------------------------------------------
(* The application: the script runs of the browser sessions, one at a time. *)

Init ==
    /\ CeiIdle
    /\ TrendIdle
    /\ session_state = NoSession
    /\ teachers = {}
    /\ classes = <<>>
    /\ daily_columns \in ExistingColumns
    /\ daily_reflections = <<>>
    /\ out = Page("Login", "form", None)

Login ==
    \E school_id \in SchoolInputs, teacher_id \in TeacherInputs,
       teacher_name \in NameInputs :
        login(school_id, teacher_id, teacher_name)

ClassSetup ==
    \E class_id \in ClassInputs, subject_id \in SubjectInputs,
       class_size \in ClassSizeInputs :
        class_setup(class_id, subject_id, class_size)

DailyReflection ==
    \E class_id \in ClassInputs, subject_id \in SubjectInputs,
       session_date \in DateInputs, present \in PresentInputs,
       levels \in LevelInputs, task \in TaskInputs, topic \in TopicInputs,
       note \in NoteInputs :
        daily_reflection(<<class_id, subject_id>>, session_date, present,
                         levels[1], levels[2], task, topic, note)

TeacherDashboard ==
    \E class_filter \in ClassInputs, subject_filter \in SubjectInputs :
        teacher_dashboard(class_filter, subject_filter)

Next ==
    \/ NewSession
    \/ Login
    \/ ClassSetup
    \/ daily_reflection_no_classes
    \/ DailyReflection
    \/ teacher_dashboard_empty
    \/ TeacherDashboard

Spec == Init /\ [][Next]_vars

-----------------------------------------------------------------------------
(* The score calculator, checked under SpecCei. *)

\* the points the specification gives a level
PointsOf(level) ==
    CASE level = "low" -> 10
      [] level = "medium" -> 25
      [] level = "high" -> 40
      [] OTHER -> 0

Abs(n) == IF n < 0 THEN 0 - n ELSE n

\* C1: for present >= 0 and class_size > 0 the score is
\* 0.4*P + 0.4*A + 0.2*min((present/class_size)*40, 40) rounded to the nearest
\* hundredth, with P and A 10, 25, 40 or 0; when present > class_size the
\* presence component is exactly 40, so ("low", "high") gives 28.0, and
\* ("medium", "medium") with half the class present gives 24.0.
C1_ScoreFormula ==
    (ret.called /\ args.present >= 0 /\ args.class_size > 0) =>
        LET P == PointsOf(args.participation)
            A == PointsOf(args.attentiveness)
            p == args.present
            c == args.class_size
            presence == IF 40 * p <= 40 * c THEN 40 * p ELSE 40 * c
            exact == 40 * P * c + 40 * A * c + 20 * presence
        IN  /\ ~ret.raised
            /\ 2 * Abs(ret.value * c - exact) <= c
            /\ p > c => ret.value = 40 * P + 40 * A + 800
            /\ (p > c /\ args.participation = "low" /\ args.attentiveness = "high")
                  => ret.value = 2800
            /\ (2 * p = c /\ args.participation = "medium"
                          /\ args.attentiveness = "medium")
                  => ret.value = 2400

C1_Witness ==
    /\ ret.called
    /\ args.participation = "low" /\ args.attentiveness = "high"
    /\ args.class_size > 0 /\ args.present > args.class_size
    /\ ret.value = 2800

\* C2: for present >= 0 and any class_size, positive or not, smaller than
\* present or not, the score lies in 0..100.
C2_ScoreInRange ==
    (ret.called /\ args.present >= 0) =>
        /\ ~ret.raised
        /\ 0 <= ret.value
        /\ ret.value <= 100 * Scale

C2_Witness ==
    /\ ret.called
    /\ args.participation = "high" /\ args.attentiveness = "high"
    /\ args.class_size = 1 /\ args.present = MaxPresent
    /\ ret.value = 4000

\* C3: for class_size <= 0 the call returns 0 whatever the other arguments
\* are, and raises nothing.
C3_NonPositiveClassSize ==
    (ret.called /\ args.class_size <= 0) => (~ret.raised /\ ret.value = 0)

C3_Witness ==
    /\ ret.called
    /\ args.class_size = 0
    /\ args.participation = "high" /\ args.attentiveness = "high"
    /\ args.present > 0
    /\ ~ret.raised /\ ret.value = 0

-----------------------------------------------------------------------------
(* The trend interpreter, checked under SpecTrend. *)

Interpreted == verdict # NoVerdict

GREEN_MESSAGE == "Class is responding well. Keep your current approach."
YELLOW_MESSAGE == "Engagement is fair. Small adjustments may help."
RED_MESSAGE == "Engagement is low. Consider changing pace or method."

\* the mean of the series lies in [lo, hi) points
MeanIn(lo, hi) ==
    /\ series # <<>>
    /\ lo * Scale * Len(series) <= SeqSum(series)
    /\ SeqSum(series) < hi * Scale * Len(series)

\* C4: a non-empty series with mean m is green for 75 <= m < 100, yellow for
\* 60 <= m < 75 and red ("Engagement is low") for 0 <= m < 60, each with its
\* message; 75 itself is green and 60 itself yellow; exactly one band holds m.
C4_Bands ==
    (Interpreted /\ series # <<>>) =>
        /\ MeanIn(75, 100) => verdict = [status |-> "green", message |-> GREEN_MESSAGE]
        /\ MeanIn(60, 75) => verdict = [status |-> "yellow", message |-> YELLOW_MESSAGE]
        /\ MeanIn(0, 60) => verdict = [status |-> "red", message |-> RED_MESSAGE]
        /\ MeanIn(0, 100) =>
              Cardinality({i \in DOMAIN ENGAGEMENT_RULES :
                  rule_matches(ENGAGEMENT_RULES[i], series_avg(series))}) = 1

C4_Witness ==
    /\ Interpreted
    /\ series # <<>>
    /\ SeqSum(series) = 75 * Scale * Len(series)
    /\ verdict.status = "green"

\* C5, as claimed: the empty series is red with the "data unclear" message.
C5_EmptyIsUnclear ==
    (Interpreted /\ series = <<>>) =>
        verdict = [status |-> "red", message |-> FALLBACK_MESSAGE]

\* C5, amended: the empty series has mean 0, which lies in the band [0, 60):
\* it is red with "Engagement is low. Consider changing pace or method."
C5_EmptyIsLow ==
    (Interpreted /\ series = <<>>) =>
        verdict = [status |-> "red", message |-> RED_MESSAGE]

C5_Witness == Interpreted /\ series = <<>> /\ verdict.message = RED_MESSAGE

\* C6: a series whose mean is below 0 or at least 100 (100 itself included)
\* is red with the "data unclear" message, and nothing else gets that message.
C6_Fallback ==
    Interpreted =>
        /\ (series # <<>> /\ ~MeanIn(0, 100)) =>
              verdict = [status |-> "red", message |-> FALLBACK_MESSAGE]
        /\ verdict.message = FALLBACK_MESSAGE =>
              (series # <<>> /\ ~MeanIn(0, 100))

C6_Witness ==
    /\ Interpreted
    /\ series # <<>>
    /\ SeqSum(series) = 100 * Scale * Len(series)
    /\ verdict = [status |-> "red", message |-> FALLBACK_MESSAGE]

\* C10: a score compute_cei returns for present >= 0 is at most 40, so a
\* series of such scores has a mean below 60 and is red with "Engagement is
\* low"; it is never green or yellow.
C10_ComputedScoresAreLow ==
    origin = "compute_cei" =>
        /\ \A i \in 1..Len(series) : series[i] <= 40 * Scale
        /\ SeqSum(series) < 60 * Scale * Len(series)
        /\ Interpreted => verdict = [status |-> "red", message |-> RED_MESSAGE]

C10_Witness ==
    /\ origin = "compute_cei"
    /\ Len(series) = MaxSeriesLen
    /\ \A i \in 1..Len(series) : series[i] = 40 * Scale
    /\ verdict = [status |-> "red", message |-> RED_MESSAGE]

-----------------------------------------------------------------------------
(* The pages, checked under Spec. *)

NOT_ENOUGH_MESSAGE ==
    "Not enough entries yet to show a clear pattern. Keep reflecting over the next few days."

\* the class_size the form of daily_reflection reads for a stored row
ClassSizeOf(d) ==
    FirstWithLabel(ClassesOfSchool(d.school_id), <<d.class_id, d.subject_id>>).class_size

\* "Save Reflection" was pressed in this step
Submitted ==
    /\ out'.page = "Daily Reflection"
    /\ out'.kind \in {"success", "exception"}

\* C7: after a logged-in teacher submits the Daily Reflection form, table
\* daily_reflections, as init_db created it, holds a new row whose cei_score
\* is compute_cei of the submitted participation, attentiveness, present and
\* class size.
C7_SubmittedIsStored ==
    [][(Submitted /\ daily_columns = InitDbColumns) =>
          /\ Len(daily_reflections') = Len(daily_reflections) + 1
          /\ LET d == daily_reflections'[Len(daily_reflections')]
             IN  /\ d.school_id = session_state.school_id
                 /\ d.teacher_id = session_state.teacher_id
                 /\ d.cei_score = compute_cei(d.participation_level,
                                              d.attentiveness_level,
                                              d.number_present,
                                              ClassSizeOf(d)).value]_vars

\* C8: no step changes or removes a stored row of daily_reflections.
C8_StoredRowsStay ==
    [][/\ Len(daily_reflections') >= Len(daily_reflections)
       /\ \A i \in 1..Len(daily_reflections) :
              daily_reflections'[i] = daily_reflections[i]]_vars

C8_Witness ==
    /\ Len(daily_reflections) = MaxReflections
    /\ \E i, j \in 1..Len(daily_reflections) :
          /\ i < j
          /\ daily_reflections[i].teacher_id = daily_reflections[j].teacher_id
          /\ daily_reflections[i].class_id = daily_reflections[j].class_id
          /\ daily_reflections[i].subject_id = daily_reflections[j].subject_id
          /\ daily_reflections[i].session_date = daily_reflections[j].session_date
          /\ daily_reflections[i].cei_score # daily_reflections[j].cei_score
    /\ out.page = "Dashboard"

\* the rows of the logged-in school and teacher with the class and subject
\* the dashboard shows as chosen
SelectedRows ==
    {i \in 1..Len(daily_reflections) :
        /\ daily_reflections[i].school_id = session_state.school_id
        /\ daily_reflections[i].teacher_id = session_state.teacher_id
        /\ daily_reflections[i].class_id = out.class_filter
        /\ daily_reflections[i].subject_id = out.subject_filter}

\* C9, as claimed: the dashboard shows an interpretation only for a selected
\* series of at least 2 rows, and with 0 or 1 rows it shows the
\* not-enough-entries notice and does not call interpret_engagement.
C9_NoticeBelowTwo ==
    out.page = "Dashboard" =>
        /\ out.interpreted => Cardinality(SelectedRows) >= 2
        /\ Cardinality(SelectedRows) <= 1 =>
              (~out.interpreted /\ out.message = NOT_ENOUGH_MESSAGE)

\* C9, amended: the dashboard shows an interpretation (the status and message
\* of interpret_engagement on the selected series) only for a selected series
\* of at least 2 rows; with exactly 1 row it shows the not-enough-entries
\* notice, with none (the teacher has no reflection, and no class or subject
\* can be chosen) it shows "No reflections yet."; in neither case is
\* interpret_engagement called.
C9_InterpretationFromTwo ==
    out.page = "Dashboard" =>
        /\ Len(out.chart) = Cardinality(SelectedRows)
        /\ out.interpreted <=> Cardinality(SelectedRows) >= 2
        /\ out.interpreted =>
              [status |-> out.status, message |-> out.message]
                  = interpret_engagement(out.chart)
        /\ Cardinality(SelectedRows) = 1 =>
              (out.status = None /\ out.message = NOT_ENOUGH_MESSAGE)
        /\ Cardinality(SelectedRows) = 0 =>
              (out.status = None /\ out.message = "No reflections yet.")

C9_Witness ==
    /\ out.page = "Dashboard"
    /\ out.interpreted
    /\ Cardinality(SelectedRows) = 2
    /\ Len(daily_reflections) = 2
    /\ out.status = "red"

====
